---- MODULE Spec2Model ----
(***************************************************************************)
(* A model of the process-execution and trace-capture core of the RTEMS    *)
(* coverage tools:                                                         *)
(*   - rld::process::temporary_files / tempfile   (rld-process.cpp)        *)
(*   - rld::process::execute status decoding      (rld-process.cpp)        *)
(*   - rld::process::parse_command_line           (rld-process.cpp)        *)
(*   - Trace::TraceWriterQEMU::writeFile          (TraceWriterQEMU.cc)     *)
(*                                                                         *)
(* Bytes are small integers.  Paths are records [base, sfx].  The file     *)
(* system is a directory (disk: path -> inode number, 0 = no entry) over   *)
(* an inode store (inodes: inode number -> content), so that a descriptor  *)
(* keeps reading a file that has been unlinked, as POSIX has it.  Inode    *)
(* numbers are labels only; every action leaves them in one canonical     *)
(* numbering (Settle).                                                     *)
(***************************************************************************)
EXTENDS Integers, Sequences, FiniteSets, TLC

VARIABLES
  keep_temporary_files, \* rld-process.cpp:73  the global keep flag
  tempfiles,            \* temporary_files::tempfiles, a sequence of tempfile_ref
  tf,                   \* the tempfile objects, by handle
  disk,                 \* directory: path -> inode number (0: no such file)
  inodes,               \* inode number -> file content
  err,                  \* what the last call threw ("" when it returned)
  ret,                  \* what the last call returned (<<>> when nothing)
  pc,                   \* position of the driving scenario
  input,                \* the input the scenario was started with
  acc,                  \* what the scenario has collected so far
  command,              \* parse_command_line: the string being scanned
  state,                \* parse_command_line: the scanner state
  start,                \* parse_command_line: where the pending token starts
  scan_i,               \* parse_command_line: the scan index i (from 0)
  args,                 \* parse_command_line: the arguments emitted so far
  perr,                 \* parse_command_line: what it threw ("" when nothing)
  sys_wait,             \* execute: whether <sys/wait.h> provides the W* macros
  xs,                   \* execute: the status word pex_one reaped
  xret,                 \* execute: what the call returned or threw
  tracefile,            \* writeFile: the file at the given path
  wcall                 \* writeFile: the last call, its arguments and result

tfvars == <<keep_temporary_files, tempfiles, tf, disk, inodes, err, ret>>
hvars == <<pc, input, acc>>
pvars == <<command, state, start, scan_i, args, perr>>
xvars == <<sys_wait, xs, xret>>
wvars == <<tracefile, wcall>>
vars == <<tfvars, hvars, pvars, xvars, wvars>>

(***************************************************************************)
(* Bounds of the model.                                                    *)
(***************************************************************************)
BufSize == 4
LifeFileLen == 1

(***************************************************************************)
(* Bytes.                                                                  *)
(***************************************************************************)
NUL == 0
LF == 10
Letters == {97}
Bytes == {NUL, LF} \cup Letters

Handles == {1, 2}
BaseSeq == <<"t1", "t2", "u1">>
TempBases == {"t1", "t2"}
UserBases == {"u1"}
Bases == TempBases \cup UserBases
SuffixSeq == <<".c", ".o">>
Suffixes == {".c", ".o"}
Paths == [base : Bases, sfx : Suffixes]
NInodes == Cardinality(Paths) + Cardinality(Handles)

Min(a, b) == IF a < b THEN a ELSE b
Max(a, b) == IF a > b THEN a ELSE b

(***************************************************************************)
(* name_ + suffix (tempfile::override), and the name make_temp_file (suffix)*)
(* returns: a base chosen by the library followed by the suffix.           *)
(***************************************************************************)
Path(b, s) == [base |-> b, sfx |-> s]

(***************************************************************************)
(* The file system.                                                        *)
(***************************************************************************)
\* rld::path::check_file: the path names an existing file.
check_file(d, p) == d[p] # 0

\* An inode is in use while a directory entry or an open descriptor refers to it.
InUse(d, t, i) ==
  \/ \E p \in Paths : d[p] = i
  \/ \E h \in Handles : t[h].fd >= 0 /\ t[h].ino = i

\* The inode a creating call gets: the lowest number not in use.
FreshIno(d, t) == CHOOSE i \in 1..NInodes :
                    /\ ~InUse(d, t, i)
                    /\ \A j \in 1..(i - 1) : InUse(d, t, j)

\* The canonical number of an inode in use: the place of its path among the
\* paths while it is linked, and past those the least handle holding it open
\* once it is not.
PathIdx(p) ==
  (CHOOSE k \in 1..Len(BaseSeq) : BaseSeq[k] = p.base) * Len(SuffixSeq)
  - Len(SuffixSeq)
  + (CHOOSE k \in 1..Len(SuffixSeq) : SuffixSeq[k] = p.sfx)

Canon(d, t, i) ==
  IF i = 0 THEN 0
  ELSE IF \E p \in Paths : d[p] = i
  THEN PathIdx(CHOOSE p \in Paths : d[p] = i)
  ELSE Cardinality(Paths)
       + (CHOOSE h \in Handles : /\ t[h].fd >= 0 /\ t[h].ino = i
                                 /\ \A g \in Handles :
                                      (t[g].fd >= 0 /\ t[g].ino = i) => h <= g)

\* The file system and the objects after a call: the inodes nothing refers
\* to any more are freed, the others renumbered canonically.
SettleDisk(d, t) == [p \in Paths |-> Canon(d, t, d[p])]
SettleTf(d, t) == [h \in Handles |-> [t[h] EXCEPT !.ino = IF t[h].fd >= 0
                                                          THEN Canon(d, t, t[h].ino)
                                                          ELSE 0]]
SettleInodes(d, t, ino) ==
  [j \in 1..NInodes |->
     IF \E i \in 1..NInodes : InUse(d, t, i) /\ Canon(d, t, i) = j
     THEN ino[CHOOSE i \in 1..NInodes : InUse(d, t, i) /\ Canon(d, t, i) = j]
     ELSE <<>>]

Settled(d, t, ino) ==
  /\ disk' = SettleDisk(d, t)
  /\ tf' = SettleTf(d, t)
  /\ inodes' = SettleInodes(d, t, ino)

\* rld::path::unlink: remove the directory entry, if there is one.
path_unlink(d, p) == [d EXCEPT ![p] = 0]

\* The descriptor ::open returns to handle h: one above stdin, stdout and
\* stderr that no other handle holds.
NewFd(h) == 2 + h

(***************************************************************************)
(* temporary_files                                                         *)
(***************************************************************************)
tempfile_ref(name, keep) == [name |-> name, keep |-> keep]

\* A slip: the record's own keep flag is not looked at.
unlink_ignoring_keep(d, ref, keepall) ==
  IF ~keepall THEN path_unlink(d, ref.name) ELSE d

\* temporary_files::unlink (const tempfile_ref&)
unlink(d, ref, keepall) ==
  IF ~keepall /\ ~ref.keep THEN path_unlink(d, ref.name) ELSE d

\* Index of the first record called name, 0 when there is none.
FindRef(refs, name) ==
  IF \E k \in 1..Len(refs) : refs[k].name = name
  THEN CHOOSE k \in 1..Len(refs) :
         /\ refs[k].name = name
         /\ \A j \in 1..(k - 1) : refs[j].name # name
  ELSE 0

RemoveAt(s, k) == SubSeq(s, 1, k - 1) \o SubSeq(s, k + 1, Len(s))

\* temporary_files::erase: the registry after the call.  (erase_nothing
\* leaves the record where it is.)
erase_nothing(refs, name) == refs
erase_refs(refs, name) ==
  IF FindRef(refs, name) = 0 THEN refs ELSE RemoveAt(refs, FindRef(refs, name))

\* temporary_files::erase: the directory after the call.
erase_disk(d, refs, name, keepall) ==
  IF FindRef(refs, name) = 0 THEN d ELSE unlink(d, refs[FindRef(refs, name)], keepall)

\* temporary_files::keep
keep_refs(refs, name) ==
  IF FindRef(refs, name) = 0 THEN refs
  ELSE [refs EXCEPT ![FindRef(refs, name)].keep = TRUE]

\* temporary_files::clean_up: unlink every record, in order; the records stay.
RECURSIVE clean_up_disk(_, _, _)
clean_up_disk(d, refs, keepall) ==
  IF refs = <<>> THEN d
  ELSE clean_up_disk(unlink(d, Head(refs), keepall), Tail(refs), keepall)

(***************************************************************************)
(* tempfile: the object.                                                   *)
(*   st: "none" before construction, "live", "dead" after destruction      *)
(*   name, suffix, overridden, fd, level, buf: the members                 *)
(*   ino, pos, wr, app: the open file description behind fd (the inode,    *)
(*   the file offset, O_RDWR, O_APPEND)                                    *)
(*   marked: whether the caller ever asked to keep this file (at           *)
(*   construction or by keep ()); a record of the calls, not a member      *)
(***************************************************************************)
NoPath == [base |-> "", sfx |-> ""]
FillBuf(g) == [i \in 1..BufSize |-> g]
NoFile == [st |-> "none", name |-> NoPath, suffix |-> "", overridden |-> FALSE,
           fd |-> -1, level |-> 0, buf |-> FillBuf(NUL),
           ino |-> 0, pos |-> 0, wr |-> FALSE, app |-> FALSE, marked |-> FALSE]

Live(h) == tf[h].st = "live"

\* What ::close leaves of the object: no descriptor, no open file description.
Closed(t) == [t EXCEPT !.fd = -1, !.level = 0, !.ino = 0, !.pos = 0,
                       !.wr = FALSE, !.app = FALSE]

\* tempfile::tempfile and temporary_files::get.  make_temp_file creates an
\* empty file under a name no file has (base b), or fails (b = "").
\* buf is not initialised by the constructor: it holds g everywhere.
Create(h, suffix, keep, b, g) ==
  /\ tf[h].st = "none"
  /\ IF b = ""
     THEN /\ err' = "bad temp name"
          /\ UNCHANGED <<tempfiles, tf, disk, inodes>>
     ELSE /\ ~check_file(disk, Path(b, suffix))
          /\ Settled([disk EXCEPT ![Path(b, suffix)] = FreshIno(disk, tf)],
                     [tf EXCEPT ![h] = [NoFile EXCEPT !.st = "live",
                                                      !.name = Path(b, suffix),
                                                      !.suffix = suffix,
                                                      !.buf = FillBuf(g),
                                                      !.marked = keep]],
                     [inodes EXCEPT ![FreshIno(disk, tf)] = <<>>])
          /\ tempfiles' = Append(tempfiles, tempfile_ref(Path(b, suffix), keep))
          /\ err' = ""
  /\ ret' = <<>>
  /\ UNCHANGED <<keep_temporary_files>>

\* tempfile::close
close_tf(t) == IF t.fd # -1 THEN Closed(t) ELSE t

Close(h) ==
  /\ Live(h)
  /\ Settled(disk, [tf EXCEPT ![h] = close_tf(tf[h])], inodes)
  /\ err' = ""
  /\ ret' = <<>>
  /\ UNCHANGED <<keep_temporary_files, tempfiles>>

\* tempfile::~tempfile: close, then erase the record called _name.
Destroy(h) ==
  /\ Live(h)
  /\ Settled(erase_disk(disk, tempfiles, tf[h].name, keep_temporary_files),
             [tf EXCEPT ![h] = [NoFile EXCEPT !.st = "dead", !.name = tf[h].name,
                                              !.marked = tf[h].marked]],
             inodes)
  /\ tempfiles' = erase_refs(tempfiles, tf[h].name)
  /\ err' = ""
  /\ ret' = <<>>
  /\ UNCHANGED <<keep_temporary_files>>

\* if (fd < 0) in tempfile::open: the handle is open already and the call
\* does nothing.  (The two before it: no such test; a test that lets a
\* handle holding buffered bytes open again.)
always_opens(t) == FALSE
opens_when_buffered(t) == t.fd >= 0 /\ t.level = 0
already_open(t) == t.fd >= 0

\* tempfile::open.  sys_ok: whether ::open succeeds when the file is there
\* (or is to be created); when it fails fd is assigned the -1 it returned.
Open(h, writable, sys_ok) ==
  /\ Live(h)
  /\ LET t == tf[h]
         ok == check_file(disk, t.name)
         creat == writable /\ t.overridden
         i == IF ok THEN disk[t.name] ELSE FreshIno(disk, tf)
     IN IF already_open(t)
        THEN /\ err' = ""
             /\ UNCHANGED <<tf, disk, inodes>>
        ELSE IF ~creat /\ ~ok
        THEN /\ err' = "Not found."
             /\ UNCHANGED <<tf, disk, inodes>>
        ELSE IF ~sys_ok
        THEN /\ err' = "open"
             /\ tf' = [tf EXCEPT ![h] = [t EXCEPT !.level = 0, !.fd = -1]]
             /\ UNCHANGED <<disk, inodes>>
        ELSE /\ err' = ""
             /\ Settled([disk EXCEPT ![t.name] = i],
                        [tf EXCEPT ![h] = [t EXCEPT !.level = 0, !.fd = NewFd(h),
                                                    !.ino = i, !.pos = 0,
                                                    !.wr = writable, !.app = creat]],
                        IF creat THEN [inodes EXCEPT ![i] = <<>>] ELSE inodes)
  /\ ret' = <<>>
  /\ UNCHANGED <<keep_temporary_files, tempfiles>>

\* tempfile::override.  (Override_unguarded lacks the test for an open
\* handle.)
Override_unguarded(h, name_) ==
  /\ Live(h)
  /\ err' = ""
  /\ Settled(path_unlink(disk, tf[h].name),
             [tf EXCEPT ![h].overridden = TRUE,
                        ![h].name = Path(name_, tf[h].suffix)],
             inodes)
  /\ ret' = <<>>
  /\ UNCHANGED <<keep_temporary_files, tempfiles>>

Override(h, name_) ==
  /\ Live(h)
  /\ IF tf[h].fd >= 0
     THEN /\ err' = "Already open"
          /\ UNCHANGED <<tf, disk, inodes>>
     ELSE /\ err' = ""
          /\ Settled(path_unlink(disk, tf[h].name),
                     [tf EXCEPT ![h].overridden = TRUE,
                                ![h].name = Path(name_, tf[h].suffix)],
                     inodes)
  /\ ret' = <<>>
  /\ UNCHANGED <<keep_temporary_files, tempfiles>>

\* tempfile::keep
Keep(h) ==
  /\ Live(h)
  /\ tempfiles' = keep_refs(tempfiles, tf[h].name)
  /\ tf' = [tf EXCEPT ![h].marked = TRUE]
  /\ err' = ""
  /\ ret' = <<>>
  /\ UNCHANGED <<keep_temporary_files, disk, inodes>>

\* set_keep_temporary_files
SetKeep ==
  /\ keep_temporary_files' = TRUE
  /\ err' = ""
  /\ ret' = <<>>
  /\ UNCHANGED <<tempfiles, tf, disk, inodes>>

\* temporaries_clean_up
CleanUp ==
  /\ Settled(clean_up_disk(disk, tempfiles, keep_temporary_files), tf, inodes)
  /\ err' = ""
  /\ ret' = <<>>
  /\ UNCHANGED <<keep_temporary_files, tempfiles>>

(***************************************************************************)
(* tempfile: reading and writing.  The underlying ::read and ::write may   *)
(* transfer fewer bytes than asked for, or fail; every such outcome is a   *)
(* member of the set the loop operators return.                            *)
(***************************************************************************)
\* What ::read (fd, ..., req) may return at offset pos of data: 0 at end of
\* file, any count up to req and up to what is left otherwise, and -1 when
\* the environment F lets a read fail (-1 \in F).
ReadCounts(data, pos, req, F) ==
  (F \cap {-1}) \cup (IF Len(data) <= pos THEN {0} ELSE 1..Min(req, Len(data) - pos))

\* sizeof (buf) - level - 1, what read_line asks ::read for.  (Without the
\* - 1 no room is left for the terminating zero byte.)
read_size_no_terminator(level) == BufSize - level
read_size(level) == BufSize - level - 1

\* ::strchr (buf, '\n'): the (1-based) place of the first line feed before
\* the first zero byte, 0 when a zero byte comes first.  With neither in
\* buf the scan leaves the buffer (ScanOverrun); 0 stands for that as well.
strchr_lf(buf) ==
  IF \E i \in 1..BufSize : buf[i] = LF /\ \A j \in 1..(i - 1) : buf[j] \notin {LF, NUL}
  THEN CHOOSE i \in 1..BufSize : buf[i] = LF /\ \A j \in 1..(i - 1) : buf[j] \notin {LF, NUL}
  ELSE 0

ScanOverrun(buf) == \A i \in 1..BufSize : buf[i] \notin {LF, NUL}

\* ::memset (buf + level, 0, sizeof (buf) - level)
memset_tail(buf, level) == [i \in 1..BufSize |-> IF i > level THEN NUL ELSE buf[i]]

\* The n bytes ::read stores at buf + level, taken from offset pos of data.
store(buf, level, data, pos, n) ==
  [i \in 1..BufSize |-> IF i > level /\ i <= level + n THEN data[pos + i - level]
                        ELSE buf[i]]

\* A slide that starts one byte early, at the line feed itself.
memmove_from_lf(buf, len, level) ==
  [i \in 1..BufSize |-> IF i <= level + 1 THEN buf[len + i - 1] ELSE buf[i]]

\* ::memmove (buf, &buf[len], level + 1).  read_line calls it with
\* len + level + 1 <= sizeof (buf); a byte from beyond buf counts as zero.
memmove_front(buf, len, level) ==
  [i \in 1..BufSize |-> IF i > level + 1 THEN buf[i]
                        ELSE IF len + i <= BufSize THEN buf[len + i]
                        ELSE NUL]

\* tempfile::read_line, the body of the while loop and the loop: the set of
\* [pos, buf, level, line, err] the call may end with.
RECURSIVE read_line_loop(_, _, _, _, _, _)
read_line_iter(data, pos, buf, level, line, n, F) ==
  LET doread == level < BufSize - 1
      buf1   == IF doread THEN memset_tail(buf, level) ELSE buf
      rd     == IF doread THEN n ELSE 0
      buf2   == store(buf1, level, data, pos, rd)
      level2 == level + rd
      pos2   == pos + rd
      lf     == strchr_lf(buf2)
      len    == IF lf # 0 THEN lf ELSE level2
      reading == ~(doread /\ n = 0) /\ ~(level2 # 0 /\ lf # 0)
      line2  == IF level2 # 0 THEN line \o SubSeq(buf2, 1, len) ELSE line
      level3 == IF level2 # 0 THEN level2 - len ELSE level2
      buf3   == IF level2 # 0 /\ level3 # 0 THEN memmove_front(buf2, len, level3)
                ELSE buf2
  IN IF doread /\ n < 0
     THEN {[pos |-> pos, buf |-> buf1, level |-> level, line |-> line, err |-> "read"]}
     ELSE IF level2 # 0 /\ ScanOverrun(buf2)
     THEN {[pos |-> pos2, buf |-> buf2, level |-> level2, line |-> line,
            err |-> "strchr past buf"]}
     ELSE IF reading
     THEN read_line_loop(data, pos2, buf3, level3, line2, F)
     ELSE {[pos |-> pos2, buf |-> buf3, level |-> level3, line |-> line2, err |-> ""]}

read_line_loop(data, pos, buf, level, line, F) ==
  IF level < BufSize - 1
  THEN UNION {read_line_iter(data, pos, buf, level, line, n, F) :
                n \in ReadCounts(data, pos, read_size(level), F)}
  ELSE read_line_iter(data, pos, buf, level, line, 0, F)

\* tempfile::read, the loop: the set of [pos, buf, all, err] it may end with.
RECURSIVE read_loop(_, _, _, _, _)
read_loop(data, pos, buf, all, F) ==
  UNION {IF n < 0 THEN {[pos |-> pos, buf |-> buf, all |-> all, err |-> "read"]}
         ELSE IF n = 0 THEN {[pos |-> pos, buf |-> buf, all |-> all, err |-> ""]}
         ELSE read_loop(data, pos + n, store(buf, 0, data, pos, n),
                        all \o SubSeq(data, pos + 1, pos + n), F) :
           n \in ReadCounts(data, pos, BufSize, F)}

\* What ::write (fd, p, l) may return: l, and in an environment F that lets
\* a write fail (-1 \in F), write nothing (0 \in F) or be partial (1 \in F),
\* also -1, 0, and any count between 1 and l; always -1 on a descriptor that
\* is closed or not open for writing.
WriteCounts(t, l, F) ==
  IF t.fd >= 0 /\ t.wr
  THEN {l} \cup (F \cap {-1, 0}) \cup (IF 1 \in F THEN 1..l ELSE {})
  ELSE {-1}

\* The file once the n bytes of chunk are written at offset at (a hole
\* before at reads as zero bytes).
pwrite(data, at, chunk) ==
  [i \in 1..Max(Len(data), at + Len(chunk)) |->
     IF i > at /\ i <= at + Len(chunk) THEN chunk[i - at]
     ELSE IF i <= Len(data) THEN data[i] ELSE NUL]

\* tempfile::write, the loop: the set of [data, pos, err] it may end with.
\* p stays at the start of s; l counts down.
RECURSIVE write_loop(_, _, _, _, _, _)
write_loop(t, s, l, data, pos, F) ==
  IF l = 0 THEN {[data |-> data, pos |-> pos, err |-> ""]}
  ELSE UNION {IF written < 0 THEN {[data |-> data, pos |-> pos, err |-> "write"]}
              ELSE IF written = 0 THEN {[data |-> data, pos |-> pos, err |-> ""]}
              ELSE LET at == IF t.app THEN Len(data) ELSE pos
                   IN write_loop(t, s, l - written,
                                 pwrite(data, at, SubSeq(s, 1, written)), at + written, F) :
                written \in WriteCounts(t, l, F)}

RLD_LINE_SEPARATOR == <<LF>>

\* tempfile::write_line: write (s); write (RLD_LINE_SEPARATOR).  A throw of
\* the first write ends the call.
write_line_outcomes(t, s, data, pos, F) ==
  UNION {IF o.err # "" THEN {o}
         ELSE write_loop(t, RLD_LINE_SEPARATOR, Len(RLD_LINE_SEPARATOR), o.data, o.pos, F) :
           o \in write_loop(t, s, Len(s), data, pos, F)}

\* tempfile::write_lines
RECURSIVE write_lines_outcomes(_, _, _, _, _)
write_lines_outcomes(t, ss, data, pos, F) ==
  IF ss = <<>> THEN {[data |-> data, pos |-> pos, err |-> ""]}
  ELSE UNION {IF o.err # "" THEN {o}
              ELSE write_lines_outcomes(t, Tail(ss), o.data, o.pos, F) :
                o \in write_line_outcomes(t, Head(ss), data, pos, F)}

\* The content behind the descriptor of t (nothing when t is closed).
FileOf(t) == IF t.fd >= 0 THEN inodes[t.ino] ELSE <<>>

\* tempfile::read_line
ReadLine(h, F) ==
  /\ Live(h)
  /\ IF tf[h].fd = -1
     THEN /\ ret' = <<>>
          /\ err' = ""
          /\ UNCHANGED tf
     ELSE \E o \in read_line_loop(FileOf(tf[h]), tf[h].pos, tf[h].buf, tf[h].level, <<>>, F) :
            /\ tf' = [tf EXCEPT ![h].pos = o.pos, ![h].buf = o.buf, ![h].level = o.level]
            /\ ret' = o.line
            /\ err' = o.err
  /\ UNCHANGED <<keep_temporary_files, tempfiles, disk, inodes>>

\* tempfile::read
ReadAll(h, F) ==
  /\ Live(h)
  /\ IF tf[h].fd = -1
     THEN /\ ret' = <<>>
          /\ err' = ""
          /\ UNCHANGED tf
     ELSE \E o \in read_loop(FileOf(tf[h]), tf[h].pos, tf[h].buf,
                             SubSeq(tf[h].buf, 1, tf[h].level), F) :
            /\ tf' = [tf EXCEPT ![h].pos = o.pos, ![h].buf = o.buf, ![h].level = 0]
            /\ ret' = o.all
            /\ err' = o.err
  /\ UNCHANGED <<keep_temporary_files, tempfiles, disk, inodes>>

\* The effect of a writing call that may end with any of outcomes; files
\* are kept within cap bytes.
Written(h, outcomes, cap) ==
  \E o \in outcomes :
    /\ Len(o.data) <= cap
    /\ err' = o.err
    /\ IF tf[h].fd >= 0
       THEN /\ inodes' = [inodes EXCEPT ![tf[h].ino] = o.data]
            /\ tf' = [tf EXCEPT ![h].pos = o.pos]
       ELSE UNCHANGED <<inodes, tf>>

\* tempfile::write
Write(h, s, F, cap) ==
  /\ Live(h)
  /\ Written(h, write_loop(tf[h], s, Len(s), FileOf(tf[h]), tf[h].pos, F), cap)
  /\ ret' = <<>>
  /\ UNCHANGED <<keep_temporary_files, tempfiles, disk>>

\* tempfile::write_lines
WriteLines(h, ss, F, cap) ==
  /\ Live(h)
  /\ Written(h, write_lines_outcomes(tf[h], ss, FileOf(tf[h]), tf[h].pos, F), cap)
  /\ ret' = <<>>
  /\ UNCHANGED <<keep_temporary_files, tempfiles, disk>>

\* tempfile::output, the loop: read_line until it returns the empty line with
\* nothing buffered, each line going to out; the set of
\* [pos, buf, level, out, err] the loop may end with.  A throw of read_line
\* ends it.
RECURSIVE output_loop(_, _, _, _, _, _)
output_loop(data, pos, buf, level, out, F) ==
  UNION {IF o.err # ""
         THEN {[pos |-> o.pos, buf |-> o.buf, level |-> o.level, out |-> out,
                err |-> o.err]}
         ELSE IF o.line = <<>> /\ o.level = 0
         THEN {[pos |-> o.pos, buf |-> o.buf, level |-> o.level, out |-> out,
                err |-> ""]}
         ELSE output_loop(data, o.pos, o.buf, o.level, out \o o.line, F) :
           o \in read_line_loop(data, pos, buf, level, <<>>, F)}

\* tempfile::output (prefix, out, line_numbers) with an empty prefix and no
\* line numbers: on a closed handle open (), the loop, close (); nothing on
\* an open one.  ret is what out has received.  A throw of open leaves the
\* handle closed, a throw of read_line leaves it open.
Output(h, sys_ok, F) ==
  /\ Live(h)
  /\ LET t == tf[h]
     IN IF t.fd # -1
        THEN /\ err' = ""
             /\ ret' = <<>>
             /\ UNCHANGED <<tf, disk, inodes>>
        ELSE IF ~check_file(disk, t.name)
        THEN /\ err' = "Not found."
             /\ ret' = <<>>
             /\ UNCHANGED <<tf, disk, inodes>>
        ELSE IF ~sys_ok
        THEN /\ err' = "open"
             /\ ret' = <<>>
             /\ tf' = [tf EXCEPT ![h] = [t EXCEPT !.level = 0, !.fd = -1]]
             /\ UNCHANGED <<disk, inodes>>
        ELSE \E o \in output_loop(inodes[disk[t.name]], 0, t.buf, 0, <<>>, F) :
               /\ err' = o.err
               /\ ret' = o.out
               /\ Settled(disk,
                          [tf EXCEPT ![h] =
                             IF o.err = ""
                             THEN Closed([t EXCEPT !.buf = o.buf])
                             ELSE [t EXCEPT !.fd = NewFd(h), !.ino = disk[t.name],
                                            !.pos = o.pos, !.buf = o.buf,
                                            !.level = o.level, !.wr = FALSE,
                                            !.app = FALSE]],
                          inodes)
  /\ UNCHANGED <<keep_temporary_files, tempfiles>>

(***************************************************************************)
(* parse_command_line: the tokenizer.  A command is a sequence of          *)
(* characters; scan_i and start count from 0 as in the code, so the        *)
(* character at index k is command[k + 1].                                 *)
(***************************************************************************)
quote == "\""
escape == "\\"
NulChar == "\\0"
\* The characters ::isspace is true for in the C locale: space, \t, \n,
\* \v, \f and \r.
VT == "\\v"
Spaces == {" ", "\t", "\n", VT, "\f", "\r"}

isspace(c) == c \in Spaces

\* command[k] of a std::string: the terminating NUL at k = size().
CharAt(cmd, k) == IF k < Len(cmd) THEN cmd[k + 1] ELSE NulChar

\* std::string::substr(pos, count): the characters [pos, min(pos + count, size)).
substr(cmd, pos, count) == SubSeq(cmd, pos + 1, Min(pos + count, Len(cmd)))

Scanning == scan_i < Len(command) /\ perr = ""

\* The index after an escaped quote: i += 2.  (AfterEscapeOnly steps over the
\* backslash alone.)
AfterEscapeOnly(k) == k + 1
AfterEscapedQuote(k) == k + 2

\* (discard_space_staying never leaves the state for a raw token.)
discard_space_staying ==
  /\ Scanning
  /\ state = "pstate_discard_space"
  /\ IF CharAt(command, scan_i) = quote
       THEN /\ scan_i' = scan_i + 1
            /\ start' = scan_i + 1
            /\ state' = "pstate_accumulate_quoted"
       ELSE IF isspace(CharAt(command, scan_i))
         THEN /\ scan_i' = scan_i + 1
              /\ UNCHANGED <<start, state>>
         ELSE /\ start' = scan_i
              /\ UNCHANGED <<scan_i, state>>
  /\ UNCHANGED <<command, args, perr>>

discard_space ==
  /\ Scanning
  /\ state = "pstate_discard_space"
  /\ IF CharAt(command, scan_i) = quote
       THEN /\ scan_i' = scan_i + 1
            /\ start' = scan_i + 1
            /\ state' = "pstate_accumulate_quoted"
       ELSE IF isspace(CharAt(command, scan_i))
         THEN /\ scan_i' = scan_i + 1
              /\ UNCHANGED <<start, state>>
         ELSE /\ start' = scan_i
              /\ state' = "pstate_accumulate_raw"
              /\ UNCHANGED scan_i
  /\ UNCHANGED <<command, args, perr>>

\* (accumulate_quoted_any_quote takes every quote for the closing one.)
accumulate_quoted_any_quote ==
  /\ Scanning
  /\ state = "pstate_accumulate_quoted"
  /\ IF CharAt(command, scan_i) = quote
          \/ (CharAt(command, scan_i) = escape /\ CharAt(command, scan_i + 1) = quote)
       THEN /\ args' = Append(args, substr(command, start, scan_i - 1))
            /\ scan_i' = scan_i + 1
            /\ state' = "pstate_discard_space"
       ELSE /\ scan_i' = scan_i + 1
            /\ UNCHANGED <<args, state>>
  /\ UNCHANGED <<command, start, perr>>

accumulate_quoted ==
  /\ Scanning
  /\ state = "pstate_accumulate_quoted"
  /\ IF CharAt(command, scan_i) = quote
       THEN /\ args' = Append(args, substr(command, start, scan_i - 1))
            /\ scan_i' = scan_i + 1
            /\ state' = "pstate_discard_space"
       ELSE IF CharAt(command, scan_i) = escape /\ CharAt(command, scan_i + 1) = quote
         THEN /\ scan_i' = AfterEscapedQuote(scan_i)
              /\ UNCHANGED <<args, state>>
         ELSE /\ scan_i' = scan_i + 1
              /\ UNCHANGED <<args, state>>
  /\ UNCHANGED <<command, start, perr>>

accumulate_raw ==
  /\ Scanning
  /\ state = "pstate_accumulate_raw"
  /\ IF CharAt(command, scan_i) = quote
       THEN /\ perr' = "quote in token"
            /\ UNCHANGED <<args, scan_i, state>>
       ELSE IF CharAt(command, scan_i) = escape /\ CharAt(command, scan_i + 1) = quote
         THEN /\ scan_i' = AfterEscapedQuote(scan_i)
              /\ UNCHANGED <<args, state, perr>>
         ELSE IF isspace(CharAt(command, scan_i))
           THEN /\ args' = Append(args, substr(command, start, scan_i - 1))
                /\ scan_i' = scan_i + 1
                /\ state' = "pstate_discard_space"
                /\ UNCHANGED perr
           ELSE /\ scan_i' = scan_i + 1
                /\ UNCHANGED <<args, state, perr>>
  /\ UNCHANGED <<command, start>>

(***************************************************************************)
(* execute: decoding the status word s that pex_one reaped.  The W* macros *)
(* are those of <sys/wait.h> when the build has them (sys_wait), and the   *)
(* fallback definitions of rld-process.cpp otherwise.                      *)
(***************************************************************************)
LowByte(S) == S % 256
HighByte(S) == (S \div 256) % 256

\* <sys/wait.h>
sys_WTERMSIG(S) == S % 128
sys_WIFEXITED(S) == sys_WTERMSIG(S) = 0
sys_WEXITSTATUS(S) == HighByte(S)
sys_WIFSIGNALED(S) == sys_WTERMSIG(S) # 0 /\ sys_WTERMSIG(S) # 127
sys_WIFSTOPPED(S) == LowByte(S) = 127
sys_WSTOPSIG(S) == sys_WEXITSTATUS(S)

\* The fallback definitions.
fallback_WIFEXITED(S) == LowByte(S) = 0
fallback_WEXITSTATUS(S) == HighByte(S)
fallback_WIFSIGNALED(S) == LowByte(S) # 0 /\ LowByte(S) # 127
fallback_WTERMSIG(S) == S % 128
fallback_WIFSTOPPED(S) == fallback_WIFEXITED(S)
fallback_WSTOPSIG(S) == fallback_WEXITSTATUS(S)

WIFEXITED(S) == IF sys_wait THEN sys_WIFEXITED(S) ELSE fallback_WIFEXITED(S)
WEXITSTATUS(S) == IF sys_wait THEN sys_WEXITSTATUS(S) ELSE fallback_WEXITSTATUS(S)
WIFSIGNALED(S) == IF sys_wait THEN sys_WIFSIGNALED(S) ELSE fallback_WIFSIGNALED(S)
WTERMSIG(S) == IF sys_wait THEN sys_WTERMSIG(S) ELSE fallback_WTERMSIG(S)
WIFSTOPPED(S) == IF sys_wait THEN sys_WIFSTOPPED(S) ELSE fallback_WIFSTOPPED(S)
WSTOPSIG(S) == IF sys_wait THEN sys_WSTOPSIG(S) ELSE fallback_WSTOPSIG(S)

Status(type, code) == [kind |-> "status", type |-> type, code |-> code]
Thrown(what) == [kind |-> "error", type |-> what, code |-> 0]
NoResult == [kind |-> "none", type |-> "", code |-> 0]

\* The decoding of s, lines 443-472.
decode(s) ==
  IF WIFEXITED(s) THEN Status("normal", WEXITSTATUS(s))
  ELSE IF WIFSIGNALED(s) THEN Status("signal", WTERMSIG(s))
  ELSE IF WIFSTOPPED(s) THEN Status("stopped", WSTOPSIG(s))
  ELSE Thrown("unknown status returned")

\* execute: pex_one reports a failure of its own (serr), a system error
\* (err), or the status word s of the child it waited for.
execute(serr, errno_, s) ==
  /\ xret = NoResult
  /\ xs' = IF serr \/ errno_ # 0 THEN 0 ELSE s
  /\ xret' = IF serr THEN Thrown("pex_one")
             ELSE IF errno_ # 0 THEN Thrown("strerror")
             ELSE decode(s)
  /\ UNCHANGED sys_wait

(***************************************************************************)
(* TraceWriterQEMU::writeFile.  The file at the given path is what exists  *)
(* there: whether it exists, the headers and the entries it holds.  A log  *)
(* is the sequence log->Trace.set of records [lowAddress, length,          *)
(* exitReason].                                                            *)
(***************************************************************************)
TRACE_OP_BLOCK == 16

RECURSIVE BitOr(_, _)
BitOr(a, b) ==
  IF a = 0 THEN b
  ELSE IF b = 0 THEN a
  ELSE (IF a % 2 = 1 \/ b % 2 = 1 THEN 1 ELSE 0) + 2 * BitOr(a \div 2, b \div 2)

ExitReasons == {"EXIT_REASON_BRANCH_TAKEN", "EXIT_REASON_BRANCH_NOT_TAKEN",
                "EXIT_REASON_OTHER"}

NoTraceFile == [exists |-> FALSE, header |-> <<>>, entries |-> <<>>, torn |-> FALSE]

trace_header ==
  [magic |-> "QEMU_TRACE_MAGIC", version |-> "QEMU_TRACE_VERSION",
   kind |-> "QEMU_TRACE_KIND_RAW", sizeof_target_pc |-> 32, big_endian |-> FALSE,
   machine |-> <<0, 0>>]

\* entry.op = TRACE_OP_BLOCK, whatever entry.op held (op_kept would keep it).
op_kept(op) == BitOr(op, TRACE_OP_BLOCK)
op_block(op) == TRACE_OP_BLOCK

\* The switch on itr->exitReason, for the reasons of the enumeration.
op_for(op, exitReason, taken, notTaken) ==
  IF exitReason = "EXIT_REASON_BRANCH_TAKEN" THEN BitOr(op, taken)
  ELSE IF exitReason = "EXIT_REASON_BRANCH_NOT_TAKEN" THEN BitOr(op, notTaken)
  ELSE op

\* The entries the loop has handed to fwrite after n iterations; entry is
\* one object, assigned field by field in each iteration.
RECURSIVE entries_after(_, _, _, _)
entries_after(log, n, taken, notTaken) ==
  IF n = 0 THEN <<>>
  ELSE LET before == entries_after(log, n - 1, taken, notTaken)
           op == IF n = 1 THEN 0 ELSE before[n - 1].op
       IN Append(before,
                 [pc |-> log[n].lowAddress,
                  size |-> log[n].length,
                  op |-> op_for(op_block(op), log[n].exitReason, taken, notTaken)])

\* The first record whose exit reason is none of the enumeration's (the
\* default branch: exit (1)); Len (log) + 1 when there is none.
FirstUnknown(log) ==
  IF \E k \in 1..Len(log) : log[k].exitReason \notin ExitReasons
  THEN CHOOSE k \in 1..Len(log) :
         /\ log[k].exitReason \notin ExitReasons
         /\ \A j \in 1..(k - 1) : log[j].exitReason \in ExitReasons
  ELSE Len(log) + 1

\* The file once the first n of the items handed to fwrite (the header,
\* then the entries) have reached it whole and, when torn, the first bytes
\* of the item after them: the stream is written out by bytes, not by items.
file_with(log, n, torn, taken, notTaken) ==
  [exists |-> TRUE,
   header |-> IF n >= 1 THEN <<trace_header>> ELSE <<>>,
   entries |-> IF n >= 2 THEN entries_after(log, n - 1, taken, notTaken) ELSE <<>>,
   torn |-> torn]

\* log->Trace.set.begin() == log->Trace.set.end()  (Unverified: no such test.)
Unverified(log) == FALSE
TraceListEmpty(log) == log = <<>>

\* writeFile (file, log).  open_ok: fopen succeeds.  fail_at: which fwrite
\* fails, 1 the header's, k + 1 that of entry k, 0 none.  flushed, torn: how
\* many of the items handed to the stream have reached the file whole when
\* a write to the file fails, and whether part of the next one has.
\* flush_ok: what the stream's buffer still holds is written out when the
\* stream is closed, by fclose, whose result is not looked at, or by
\* exit (1).  After a failing fwrite the stream is left open.
writeFile(log, taken, notTaken, open_ok, fail_at, flushed, torn, flush_ok) ==
  /\ wcall.result # "exit"
  /\ LET stop == FirstUnknown(log)
         done(result) == wcall' = [log |-> log, taken |-> taken,
                                   notTaken |-> notTaken, result |-> result]
         part(handed) == file_with(log, Min(flushed, handed),
                                   torn /\ flushed < handed, taken, notTaken)
     IN IF TraceListEmpty(log)
        THEN /\ done("false")
             /\ UNCHANGED tracefile
        ELSE IF ~open_ok
        THEN /\ done("false")
             /\ UNCHANGED tracefile
        ELSE IF fail_at # 0 /\ fail_at <= stop
        THEN /\ done("false")
             /\ tracefile' = file_with(log, Min(flushed, fail_at - 1), torn,
                                       taken, notTaken)
        ELSE IF stop <= Len(log)
        THEN /\ done("exit")
             /\ tracefile' = IF flush_ok THEN file_with(log, stop, FALSE, taken, notTaken)
                             ELSE part(stop)
        ELSE /\ done("true")
             /\ tracefile' = IF flush_ok
                             THEN file_with(log, Len(log) + 1, FALSE, taken, notTaken)
                             ELSE part(Len(log) + 1)

(***************************************************************************)
(* The other components at rest: what their variables hold while a        *)
(* specification exercises something else.                                 *)
(***************************************************************************)
IdleFiles ==
  /\ keep_temporary_files = FALSE
  /\ tempfiles = <<>>
  /\ tf = [h \in Handles |-> NoFile]
  /\ disk = [p \in Paths |-> 0]
  /\ inodes = [n \in 1..NInodes |-> <<>>]
  /\ err = ""
  /\ ret = <<>>

IdleParse ==
  /\ command = <<>>
  /\ state = "pstate_discard_space"
  /\ start = 0
  /\ scan_i = 0
  /\ args = <<>>
  /\ perr = ""

IdleExec ==
  /\ sys_wait = TRUE
  /\ xs = 0
  /\ xret = NoResult

IdleTrace ==
  /\ tracefile = NoTraceFile
  /\ wcall = [log |-> <<>>, taken |-> 0, notTaken |-> 0, result |-> "none"]

(***************************************************************************)
(* Spec: the life of the temporary files of a process.  Handles are        *)
(* constructed, used and destroyed in any order; the global keep flag may  *)
(* be set and the registry cleaned up at any time.  Callers override with  *)
(* names of their own (UserBases); the handles in IoHandles are the ones   *)
(* opened, read and written.                                               *)
(***************************************************************************)
LifeSuffixes == {".c"}
LifeStrings == {<<97>>}
IoHandles == {1}

InitFiles ==
  /\ keep_temporary_files = FALSE
  /\ tempfiles = <<>>
  /\ tf = [h \in Handles |-> NoFile]
  /\ disk = [p \in Paths |-> 0]
  /\ inodes = [i \in 1..NInodes |-> <<>>]
  /\ err = ""
  /\ ret = <<>>

InitHarness ==
  /\ pc = "idle"
  /\ input = <<>>
  /\ acc = <<>>

Init ==
  /\ InitFiles
  /\ InitHarness
  /\ IdleParse
  /\ IdleExec
  /\ IdleTrace

NotFiles == <<hvars, pvars, xvars, wvars>>

Next ==
  \/ \E h \in Handles, sfx \in LifeSuffixes, keep \in BOOLEAN,
        b \in TempBases \cup {""} : Create(h, sfx, keep, b, NUL) /\ UNCHANGED NotFiles
  \/ \E h \in Handles : Destroy(h) /\ UNCHANGED NotFiles
  \/ \E h \in IoHandles, writable \in BOOLEAN :
        Open(h, writable, TRUE) /\ UNCHANGED NotFiles
  \/ \E h \in IoHandles : Close(h) /\ UNCHANGED NotFiles
  \/ \E h \in Handles, b \in UserBases : Override(h, b) /\ UNCHANGED NotFiles
  \/ \E h \in Handles : Keep(h) /\ UNCHANGED NotFiles
  \/ \E h \in IoHandles : ReadLine(h, {}) /\ UNCHANGED NotFiles
  \/ \E h \in IoHandles : Output(h, TRUE, {}) /\ UNCHANGED NotFiles
  \/ \E h \in IoHandles, s \in LifeStrings :
        Write(h, s, {}, LifeFileLen) /\ UNCHANGED NotFiles
  \/ SetKeep /\ UNCHANGED NotFiles
  \/ CleanUp /\ UNCHANGED NotFiles

Spec == Init /\ [][Next]_vars

(***************************************************************************)
(* C1.  With the global keep flag unset, once a handle that was never      *)
(* marked keep is destroyed, no file exists at that handle's path,         *)
(* whatever calls came before.                                             *)
(***************************************************************************)
C1_NoFileAfterDestroy ==
  [][\A h \in Handles :
       (/\ tf[h].st = "live" /\ tf'[h].st = "dead"
        /\ ~keep_temporary_files /\ ~tf[h].marked)
       => ~check_file(disk', tf[h].name)]_vars

(***************************************************************************)
(* C2.  A temporary file whose record has the keep flag, or that is        *)
(* registered while the global keep flag is set, is never deleted, by any  *)
(* call (the claim as stated, override included).                          *)
(***************************************************************************)
Registered(p) == \E k \in 1..Len(tempfiles) : tempfiles[k].name = p

KeptFile(p) ==
  /\ Registered(p)
  /\ check_file(disk, p)
  /\ \/ keep_temporary_files
     \/ \A k \in 1..Len(tempfiles) : tempfiles[k].name = p => tempfiles[k].keep

C2_KeptNeverDeleted ==
  [][\A p \in Paths : KeptFile(p) => check_file(disk', p)]_vars

(***************************************************************************)
(* C2, amended.  Such a file is deleted by no call but override: a step    *)
(* that deletes it is an override on a handle bound to its path.           *)
(***************************************************************************)
C2_KeptDeletedOnlyByOverride ==
  [][\A p \in Paths :
       (KeptFile(p) /\ ~check_file(disk', p))
       => \E h \in Handles, b \in Bases : tf[h].name = p /\ Override(h, b)]_vars

\* A handle marked keep has been destroyed and its temporary file is there.
C2_Witness ==
  \E h \in Handles :
    /\ tf[h].st = "dead" /\ tf[h].marked
    /\ tf[h].name.base \in TempBases
    /\ check_file(disk, tf[h].name)
    /\ ~keep_temporary_files

\* What is at path q: the content of the file there, <<-1>> when none.
FileAt(d, ino, q) == IF d[q] = 0 THEN <<-1>> ELSE ino[d[q]]

\* The first record called p (0 when there is none), and refs without its
\* k-th record.
FirstNamed(refs, p) ==
  IF \E k \in 1..Len(refs) : refs[k].name = p
  THEN CHOOSE k \in 1..Len(refs) :
         refs[k].name = p /\ \A j \in 1..(k - 1) : refs[j].name # p
  ELSE 0
Without(refs, k) ==
  [j \in 1..(Len(refs) - 1) |-> IF j < k THEN refs[j] ELSE refs[j + 1]]

(* C13. release (path), which the destructor of a handle calls with the    *)
(* handle's path: on a registered path it removes that one record, deletes *)
(* the file there if and only if neither the record's keep flag nor the    *)
(* keep-all flag is set, and leaves every other record and file as they    *)
(* were; on a path that is not registered it changes neither the registry  *)
(* nor the files and raises no error.                                      *)
C13_ReleaseRemovesOneRecord ==
  [][\A h \in Handles :
       (tf[h].st = "live" /\ tf'[h].st = "dead") =>
         LET p == tf[h].name
             k == FirstNamed(tempfiles, p)
             deleted == k # 0 /\ ~keep_temporary_files /\ ~tempfiles[k].keep
         IN /\ tempfiles' = IF k = 0 THEN tempfiles ELSE Without(tempfiles, k)
            /\ \A q \in Paths :
                 FileAt(disk', inodes', q)
                   = IF q = p /\ deleted THEN <<-1>> ELSE FileAt(disk, inodes, q)
            /\ err' = ""]_vars

\* A handle was destroyed and its file deleted while the other handle's
\* record and file are still there.
C13_Witness ==
  \E h, g \in Handles :
    /\ tf[h].st = "dead"
    /\ tf[h].name.base \in TempBases
    /\ ~check_file(disk, tf[h].name)
    /\ tf[g].st = "live"
    /\ check_file(disk, tf[g].name)
    /\ Len(tempfiles) = 1
    /\ tempfiles[1].name = tf[g].name

(* C14. shutdown has the effect of release on every record: after it no    *)
(* record is registered, every file whose record had neither keep flag is  *)
(* deleted and every kept file that existed still exists.                  *)
C14_ShutdownReleasesAll ==
  [][CleanUp =>
       /\ tempfiles' = <<>>
       /\ \A k \in 1..Len(tempfiles) :
            IF ~keep_temporary_files /\ ~tempfiles[k].keep
            THEN ~check_file(disk', tempfiles[k].name)
            ELSE KeptFile(tempfiles[k].name) => check_file(disk', tempfiles[k].name)]_vars

(* C16. Between operations the registry holds exactly one record for each  *)
(* live handle, under the handle's current path, and no record for a       *)
(* handle that has been destroyed.                                         *)
C16_OneRecordPerLiveHandle ==
  /\ \A h \in Handles :
       Live(h) => Cardinality({k \in 1..Len(tempfiles) :
                                 tempfiles[k].name = tf[h].name}) = 1
  /\ \A k \in 1..Len(tempfiles) :
       \E h \in Handles : Live(h) /\ tf[h].name = tempfiles[k].name

(* C17. override on an open handle fails with "Already open" and changes   *)
(* nothing: path, overridden state, registry and files stay as they were.  *)
(* override on a closed handle deletes the file at the old path and binds  *)
(* the handle to the new base name followed by the original suffix.        *)
C17_OverrideOnlyWhenClosed ==
  [][\A h \in Handles, b \in Bases :
       Override(h, b) =>
         IF tf[h].fd >= 0
         THEN /\ err' = "Already open"
              /\ tf'[h].name = tf[h].name
              /\ tf'[h].overridden = tf[h].overridden
              /\ tempfiles' = tempfiles
              /\ \A q \in Paths : FileAt(disk', inodes', q) = FileAt(disk, inodes, q)
         ELSE /\ err' = ""
              /\ tf'[h].name = [base |-> b, sfx |-> tf[h].suffix]
              /\ tf'[h].overridden
              /\ ~check_file(disk', tf[h].name)]_vars

\* An override was refused on an open handle whose file is still there.
C17_Witness ==
  \E h \in Handles :
    /\ err = "Already open"
    /\ tf[h].fd >= 0
    /\ ~tf[h].overridden
    /\ check_file(disk, tf[h].name)

(***************************************************************************)
(* SpecLines: read_line over a file of known content.  Handle 1 has been   *)
(* constructed and its file holds input (a child process wrote it); the    *)
(* scenario opens the handle read-only and calls read_line until it        *)
(* returns the empty line, collecting in acc everything returned.  Every   *)
(* split of the content into underlying reads is an outcome of read_line.  *)
(***************************************************************************)
MaxContent == 5
Contents == UNION {[1..k -> Bytes] : k \in 0..MaxContent}

\* Handle 1 constructed over the temporary file t1.c holding content.
FileOnDisk(content) ==
  /\ keep_temporary_files = FALSE
  /\ tempfiles = <<tempfile_ref(Path("t1", ".c"), FALSE)>>
  /\ \E g \in Bytes :
       tf = [h \in Handles |->
               IF h = 1 THEN [NoFile EXCEPT !.st = "live", !.name = Path("t1", ".c"),
                                            !.suffix = ".c", !.buf = FillBuf(g)]
               ELSE NoFile]
  /\ disk = [p \in Paths |-> IF p = Path("t1", ".c") THEN PathIdx(p) ELSE 0]
  /\ inodes = [n \in 1..NInodes |-> IF n = PathIdx(Path("t1", ".c")) THEN content
                                    ELSE <<>>]
  /\ err = ""
  /\ ret = <<>>

InitLines ==
  /\ \E content \in Contents : FileOnDisk(content) /\ input = content
  /\ pc = "closed"
  /\ acc = <<>>
  /\ IdleParse
  /\ IdleExec
  /\ IdleTrace

NotHarness == <<pvars, xvars, wvars>>

LinesOpen ==
  /\ pc = "closed"
  /\ Open(1, FALSE, TRUE)
  /\ pc' = "reading"
  /\ UNCHANGED <<input, acc>>

LinesRead ==
  /\ pc = "reading"
  /\ ReadLine(1, {})
  /\ acc' = acc \o ret'
  /\ pc' = IF ret' = <<>> THEN "done" ELSE "reading"
  /\ UNCHANGED input

NextLines ==
  \/ LinesOpen /\ UNCHANGED NotHarness
  \/ LinesRead /\ UNCHANGED NotHarness

SpecLines == InitLines /\ [][NextLines]_vars

(* C3. The lines successive read_line calls return on a freshly opened     *)
(* handle, concatenated, are at every moment a prefix of the file content, *)
(* and once read_line has returned the empty line they are the whole       *)
(* content, whatever the split into underlying reads.                      *)
C3_LinesConcatenateToContent ==
  /\ Len(acc) <= Len(input)
  /\ acc = SubSeq(input, 1, Len(acc))
  /\ pc = "done" => acc = input

\* A content whose first line is longer than the buffer has been read to its end.
C3_Witness ==
  /\ pc = "done"
  /\ Len(input) > BufSize
  /\ \A k \in 1..BufSize : input[k] # LF
  /\ acc = input

(***************************************************************************)
(* SpecHandle: one handle over a file of known content, and any sequence   *)
(* of open, close, read_line, read, output and write calls on it.          *)
(* Underlying reads and writes may be short; a read inside output may      *)
(* fail, no other does.  pc names the last call                            *)
(* ("open again" and "close again" when the handle was already open or     *)
(* already closed), input is the string given to the last write.           *)
(***************************************************************************)
MaxHandleFile == 4
HandleContents == UNION {[1..k -> Bytes] : k \in 0..MaxHandleFile}
HandleStrings == {<<97, LF>>}
ShortWrites == {1}

InitHandle ==
  /\ \E content \in HandleContents : FileOnDisk(content)
  /\ pc = "constructed"
  /\ input = <<>>
  /\ acc = <<>>
  /\ IdleParse
  /\ IdleExec
  /\ IdleTrace

HandleOpen(writable, sys_ok) ==
  /\ Open(1, writable, sys_ok)
  /\ pc' = IF tf[1].fd >= 0 THEN "open again" ELSE "open"
  /\ UNCHANGED <<input, acc>>

HandleClose ==
  /\ Close(1)
  /\ pc' = IF tf[1].fd = -1 THEN "close again" ELSE "close"
  /\ UNCHANGED <<input, acc>>

HandleReadLine ==
  /\ ReadLine(1, {})
  /\ pc' = "read_line"
  /\ UNCHANGED <<input, acc>>

HandleRead ==
  /\ ReadAll(1, {})
  /\ pc' = "read"
  /\ UNCHANGED <<input, acc>>

HandleOutput(sys_ok, F) ==
  /\ Output(1, sys_ok, F)
  /\ pc' = "output"
  /\ UNCHANGED <<input, acc>>

HandleWrite(s) ==
  /\ Write(1, s, ShortWrites, MaxHandleFile)
  /\ pc' = "write"
  /\ input' = s
  /\ UNCHANGED acc

NextHandle ==
  \/ \E writable \in BOOLEAN, sys_ok \in BOOLEAN :
       HandleOpen(writable, sys_ok) /\ UNCHANGED NotHarness
  \/ HandleClose /\ UNCHANGED NotHarness
  \/ HandleReadLine /\ UNCHANGED NotHarness
  \/ HandleRead /\ UNCHANGED NotHarness
  \/ \E sys_ok \in BOOLEAN, F \in {{}, {-1}} :
       HandleOutput(sys_ok, F) /\ UNCHANGED NotHarness
  \/ \E s \in HandleStrings : HandleWrite(s) /\ UNCHANGED NotHarness

SpecHandle == InitHandle /\ [][NextHandle]_vars

\* What a call may observe of handle 1 and of the files.
HandleView == <<tf[1].fd, tf[1].wr, tf[1].app, tf[1].buf, tf[1].level, tf[1].pos,
                disk, inodes>>

(* C12. close on a closed handle and open (writable or not) on an open     *)
(* handle change nothing: descriptor, open mode, buffer content and fill   *)
(* level, file position, the directory and every file's content stay as    *)
(* they were, and no error is raised.                                      *)
C12_AgainChangesNothing ==
  [][pc' \in {"open again", "close again"}
       => (HandleView' = HandleView /\ err' = "")]_vars

\* open was called on a handle that is open for reading only, has bytes of
\* the next line buffered and is past the start of its file.
C12_Witness ==
  /\ pc = "open again"
  /\ tf[1].fd >= 0
  /\ ~tf[1].wr
  /\ tf[1].level > 0
  /\ tf[1].pos > 0

(* C15. With underlying writes that may be short but never fail or return *)
(* zero, write (s) on an open writable handle puts exactly the bytes of s, *)
(* each once and in order, at the place it writes to: the end of the file  *)
(* in append mode, the file position otherwise.                            *)
C15_WriteWritesAllOfS ==
  [][(pc' = "write" /\ tf[1].fd >= 0 /\ tf[1].wr /\ err' = "")
       => inodes'[tf'[1].ino]
            = pwrite(FileOf(tf[1]),
                     IF tf[1].app THEN Len(FileOf(tf[1])) ELSE tf[1].pos,
                     input')]_vars

(* C18. Between calls the fill level of the read buffer is at most the     *)
(* buffer size minus one, a zero byte follows the buffered bytes, and no   *)
(* line-feed scan has run past the buffer.                                 *)
C18_LevelLeavesRoomForTerminator ==
  /\ tf[1].level <= BufSize - 1
  /\ tf[1].level > 0 => tf[1].buf[tf[1].level + 1] = NUL
  /\ err # "strchr past buf"

\* read_line has returned a line and left as many bytes buffered as can be.
C18_Witness ==
  /\ pc = "read_line"
  /\ ret # <<>>
  /\ tf[1].level = BufSize - 2

(* C19, as stated. After every call of open that returns without error the *)
(* fill level is zero, also on a handle that was open already.             *)
C19_EveryOpenResetsLevel ==
  [][(pc' \in {"open", "open again"} /\ err' = "") => tf'[1].level = 0]_vars

(* C19, amended. After every call of open on a closed handle that returns  *)
(* without error the fill level is zero; open on a handle that is open     *)
(* already leaves the fill level and the buffered bytes as they were.      *)
C19_OpenOfClosedResetsLevel ==
  /\ [][(pc' = "open" /\ err' = "") => (tf'[1].fd >= 0 /\ tf'[1].level = 0)]_vars
  /\ [][pc' = "open again"
         => (tf'[1].level = tf[1].level /\ tf'[1].buf = tf[1].buf)]_vars

\* open was called on a handle open for writing that holds buffered bytes.
C19_Witness ==
  /\ pc = "open again"
  /\ tf[1].wr
  /\ tf[1].level > 0

(***************************************************************************)
(* SpecRound: write_lines, close, open read-only, then read_line once per  *)
(* line and once more; acc collects the lines read_line returns.  The      *)
(* lines hold no line feed; every ::write transfers all it is given.       *)
(***************************************************************************)
MaxLineLen == 4
MaxLines == 2
LineBytes == Bytes \ {LF}
Lines == UNION {[1..k -> LineBytes] : k \in 0..MaxLineLen}
LineSeqs == UNION {[1..k -> Lines] : k \in 0..MaxLines}

InitRound ==
  /\ FileOnDisk(<<>>)
  /\ input \in LineSeqs
  /\ pc = "start"
  /\ acc = <<>>
  /\ IdleParse
  /\ IdleExec
  /\ IdleTrace

RoundOpenForWriting ==
  /\ pc = "start"
  /\ Open(1, TRUE, TRUE)
  /\ pc' = "opened"
  /\ UNCHANGED <<input, acc>>

RoundWriteLines ==
  /\ pc = "opened"
  /\ WriteLines(1, input, {}, MaxLines * (MaxLineLen + 1))
  /\ pc' = "written"
  /\ UNCHANGED <<input, acc>>

RoundClose ==
  /\ pc = "written"
  /\ Close(1)
  /\ pc' = "closed"
  /\ UNCHANGED <<input, acc>>

RoundOpenForReading ==
  /\ pc = "closed"
  /\ Open(1, FALSE, TRUE)
  /\ pc' = "reading"
  /\ UNCHANGED <<input, acc>>

RoundReadLine ==
  /\ pc = "reading"
  /\ Len(acc) <= Len(input)
  /\ ReadLine(1, {})
  /\ acc' = Append(acc, ret')
  /\ UNCHANGED <<pc, input>>

NextRound ==
  \/ RoundOpenForWriting /\ UNCHANGED NotHarness
  \/ RoundWriteLines /\ UNCHANGED NotHarness
  \/ RoundClose /\ UNCHANGED NotHarness
  \/ RoundOpenForReading /\ UNCHANGED NotHarness
  \/ RoundReadLine /\ UNCHANGED NotHarness

SpecRound == InitRound /\ [][NextRound]_vars

(* C4. Round trip: after write_lines, close and a read-only open, the k-th *)
(* read_line returns the k-th line written followed by the line            *)
(* terminator, and the read_line after the last line returns the empty     *)
(* line.                                                                   *)
C4_RoundTrip ==
  \A k \in 1..Len(acc) :
    acc[k] = IF k <= Len(input) THEN input[k] \o RLD_LINE_SEPARATOR ELSE <<>>

(***************************************************************************)
(* SpecExec: one call of execute in either build, over the status words    *)
(* whose low byte is anything and whose high byte is at most MaxHighByte.  *)
(***************************************************************************)
MaxHighByte == 19
StatusWords == {lo + 256 * hi : lo \in 0..255, hi \in 0..MaxHighByte}
ENOENT == 2

InitExec ==
  /\ sys_wait \in BOOLEAN
  /\ xs = 0
  /\ xret = NoResult
  /\ IdleFiles
  /\ InitHarness
  /\ IdleParse
  /\ IdleTrace

NotExec == <<tfvars, hvars, pvars, wvars>>

NextExec ==
  \/ \E s \in StatusWords : execute(FALSE, 0, s) /\ UNCHANGED NotExec
  \/ execute(TRUE, 0, 0) /\ UNCHANGED NotExec
  \/ execute(FALSE, ENOENT, 0) /\ UNCHANGED NotExec

SpecExec == InitExec /\ [][NextExec]_vars

\* How the child ended, as wait (2) encodes it in the status word.
ExitedNormally(S) == S % 128 = 0
TerminatedBySignal(S) == S % 128 \in 1..126
StoppedBySignal(S) == S % 256 = 127

(* C8. After a successful spawn execute returns {normal, exit code} for a  *)
(* child that exited normally, {signal, signal number} for one a signal    *)
(* terminated, {stopped, stop signal} for one that was stopped, and throws *)
(* the unknown-status error only for a word in none of the categories.     *)
C8_StatusDecoded ==
  (xret # NoResult /\ xret.type \notin {"pex_one", "strerror"}) =>
    /\ ExitedNormally(xs) => xret = Status("normal", (xs \div 256) % 256)
    /\ TerminatedBySignal(xs) => xret = Status("signal", xs % 128)
    /\ StoppedBySignal(xs) => xret = Status("stopped", (xs \div 256) % 256)
    /\ xret.kind = "error" =>
         ~(ExitedNormally(xs) \/ TerminatedBySignal(xs) \/ StoppedBySignal(xs))

(***************************************************************************)
(* SpecTrace: a call of writeFile, with a log of up to MaxRecords records, *)
(* the target's branch bits, and an environment in which fopen and any     *)
(* fwrite may fail.  The path starts out naming no file, a file of other   *)
(* content, or the trace file an earlier run wrote.                        *)
(***************************************************************************)
MaxRecords == 2
Addresses == {4096, 4100}
Lengths == {4}
TakenBits == {1, 2}
NotTakenBits == {1, 2}
Records == [lowAddress : Addresses, length : Lengths,
            exitReason : ExitReasons \cup {"out of range"}]
Logs == UNION {[1..k -> Records] : k \in 0..MaxRecords}
OldFile == [exists |-> TRUE, header |-> <<>>, entries |-> <<[pc |-> 0, size |-> 0, op |-> 0]>>,
            torn |-> FALSE]
EarlierLog == <<[lowAddress |-> 4096, length |-> 4, exitReason |-> "EXIT_REASON_OTHER"]>>
EarlierTrace == file_with(EarlierLog, Len(EarlierLog) + 1, FALSE, 1, 2)

InitTrace ==
  /\ tracefile \in {NoTraceFile, OldFile, EarlierTrace}
  /\ wcall = [log |-> <<>>, taken |-> 0, notTaken |-> 0, result |-> "none"]
  /\ IdleFiles
  /\ InitHarness
  /\ IdleParse
  /\ IdleExec

NotTrace == <<tfvars, hvars, pvars, xvars>>

NotYetCalled == wcall.result = "none"

NextTrace ==
  \/ \E log \in Logs, taken \in TakenBits, notTaken \in NotTakenBits :
       NotYetCalled /\ writeFile(log, taken, notTaken, TRUE, 0, 0, FALSE, TRUE)
         /\ UNCHANGED NotTrace
  \/ \E log \in Logs, taken \in TakenBits, notTaken \in NotTakenBits :
       NotYetCalled /\ writeFile(log, taken, notTaken, FALSE, 0, 0, FALSE, TRUE)
         /\ UNCHANGED NotTrace
  \/ \E log \in Logs, taken \in TakenBits, notTaken \in NotTakenBits,
        fail_at \in 1..(MaxRecords + 1), flushed \in 0..MaxRecords, torn \in BOOLEAN :
       NotYetCalled /\ writeFile(log, taken, notTaken, TRUE, fail_at, flushed, torn, TRUE)
         /\ UNCHANGED NotTrace
  \/ \E log \in Logs, taken \in TakenBits, notTaken \in NotTakenBits,
        flushed \in 0..MaxRecords, torn \in BOOLEAN :
       NotYetCalled /\ writeFile(log, taken, notTaken, TRUE, 0, flushed, torn, FALSE)
         /\ UNCHANGED NotTrace

SpecTrace == InitTrace /\ [][NextTrace]_vars

(* C9. A call of writeFile with an empty record sequence returns false and *)
(* leaves the file at the path as it was: not created, not truncated.      *)
C9_EmptyLogTouchesNothing ==
  [][(wcall' # wcall /\ wcall'.log = <<>>)
       => (wcall'.result = "false" /\ tracefile' = tracefile)]_vars

\* An empty log has been refused with a written trace file in place.
C9_Witness ==
  /\ wcall.log = <<>>
  /\ wcall.result = "false"
  /\ tracefile.entries # <<>>
  /\ tracefile.header # <<>>

\* The operation byte of a record by itself.
ExpectedOp(r, taken, notTaken) ==
  IF r.exitReason = "EXIT_REASON_BRANCH_TAKEN" THEN BitOr(TRACE_OP_BLOCK, taken)
  ELSE IF r.exitReason = "EXIT_REASON_BRANCH_NOT_TAKEN" THEN BitOr(TRACE_OP_BLOCK, notTaken)
  ELSE TRACE_OP_BLOCK

(* C10. Every entry a call of writeFile puts in the file has the operation *)
(* byte of its own record: BLOCK with the taken bit for branch taken, with *)
(* the not-taken bit for branch not taken, BLOCK alone for other, whatever *)
(* the records before it were.                                             *)
C10_OpByteOfOwnRecord ==
  [][tracefile' # tracefile =>
       /\ Len(tracefile'.entries) <= Len(wcall'.log)
       /\ \A k \in 1..Len(tracefile'.entries) :
            tracefile'.entries[k].op
              = ExpectedOp(wcall'.log[k], wcall'.taken, wcall'.notTaken)]_vars

\* A branch-taken record followed by an other record has been written.
C10_Witness ==
  /\ wcall.result = "true"
  /\ Len(tracefile.entries) = 2
  /\ wcall.log[1].exitReason = "EXIT_REASON_BRANCH_TAKEN"
  /\ wcall.log[2].exitReason = "EXIT_REASON_OTHER"
  /\ tracefile.entries[1].op = BitOr(TRACE_OP_BLOCK, wcall.taken)
  /\ tracefile.entries[2].op = TRACE_OP_BLOCK

(* C11. Whenever writeFile has returned true for a log of N records, the   *)
(* file holds exactly one header with the fixed field values, followed by  *)
(* exactly N entries in the order of the log, the i-th with the address    *)
(* and the length of the i-th record, and nothing it held before.          *)
C11_SuccessMeansWholeFile ==
  wcall.result = "true" =>
    /\ tracefile.exists
    /\ tracefile.header = <<trace_header>>
    /\ ~tracefile.torn
    /\ Len(tracefile.entries) = Len(wcall.log)
    /\ \A k \in 1..Len(wcall.log) :
         /\ tracefile.entries[k].pc = wcall.log[k].lowAddress
         /\ tracefile.entries[k].size = wcall.log[k].length

(***************************************************************************)
(* SpecParse: parse_command_line on every command of up to MaxCmdLen       *)
(* characters drawn from a quote, a backslash, a space, a line feed and a  *)
(* letter, and on the documented example.  One step is one iteration of    *)
(* the loop.                                                               *)
(***************************************************************************)
MaxCmdLen == 5
PChars == {quote, escape, " ", "\n", "a"}
SeqsUpTo(S, n) == UNION {[1..k -> S] : k \in 0..n}
ExampleCommand ==
  <<quote, "f", "o", "o", quote, " ", "b", "a", "r", " ",
    quote, "b", "a", "z", " ", "q", "u", "x", quote>>
ExampleArgs == << <<"f", "o", "o">>, <<"b", "a", "r">>,
                  <<"b", "a", "z", " ", "q", "u", "x">> >>
Commands == SeqsUpTo(PChars, MaxCmdLen) \cup {ExampleCommand}

InitParse ==
  /\ command \in Commands
  /\ state = "pstate_discard_space"
  /\ start = 0
  /\ scan_i = 0
  /\ args = <<>>
  /\ perr = ""
  /\ IdleFiles
  /\ InitHarness
  /\ IdleExec
  /\ IdleTrace

NotParse == <<tfvars, hvars, xvars, wvars>>

NextParse ==
  \/ discard_space /\ UNCHANGED NotParse
  \/ accumulate_quoted /\ UNCHANGED NotParse
  \/ accumulate_raw /\ UNCHANGED NotParse

SpecParse == InitParse /\ [][NextParse]_vars

\* The loop has ended without a throw.
ScanEnded == scan_i >= Len(command) /\ perr = ""

(* C5. When the scan reaches the end of the command inside a quoted or a   *)
(* raw token, the pending token, from its start to the end of the command, *)
(* is the last argument of the result.                                     *)
C5_PendingTokenEmitted ==
  (ScanEnded /\ state \in {"pstate_accumulate_quoted", "pstate_accumulate_raw"})
    => /\ Len(args) > 0
       /\ args[Len(args)] = SubSeq(command, start + 1, Len(command))

(* C6. Every argument the tokenizer emits is the characters from the start *)
(* of its token up to, not including, the character that ends it (the      *)
(* closing quote or the whitespace), and the documented example            *)
(* "foo" bar "baz qux" yields foo, bar, baz qux.                            *)
C6_EmitsTokenText ==
  /\ [][Len(args') > Len(args)
          => args' = Append(args, SubSeq(command, start + 1, scan_i))]_vars
  /\ []((command = ExampleCommand /\ ScanEnded) => args = ExampleArgs)

(* C7. The tokenizer throws "quote in token" exactly when, accumulating a  *)
(* raw token, it meets a quote that no backslash precedes: it throws only  *)
(* there, it always throws there, and it throws nothing else.              *)
C7_ThrowsOnlyOnBareQuote ==
  /\ [](perr # "" =>
          /\ perr = "quote in token"
          /\ state = "pstate_accumulate_raw"
          /\ scan_i > start
          /\ CharAt(command, scan_i) = quote
          /\ CharAt(command, scan_i - 1) # escape)
  /\ [][(Scanning /\ state = "pstate_accumulate_raw"
          /\ CharAt(command, scan_i) = quote) => perr' = "quote in token"]_vars
  /\ [][(Scanning /\ ~(state = "pstate_accumulate_raw"
                       /\ CharAt(command, scan_i) = quote)) => perr' = ""]_vars

C7_Witness ==
  /\ perr = "quote in token"
  /\ \E k \in 1..Len(command) - 1 : command[k] = escape /\ command[k + 1] = quote

(* C20. A backslash immediately followed by a quote, met while a quoted or *)
(* a raw token is being accumulated, is consumed whole: the index moves    *)
(* past both characters, the token stays open with the same start, no     *)
(* argument is emitted and no error is raised.                             *)
C20_EscapedQuoteConsumed ==
  [][(/\ Scanning
      /\ state \in {"pstate_accumulate_quoted", "pstate_accumulate_raw"}
      /\ CharAt(command, scan_i) = escape
      /\ CharAt(command, scan_i + 1) = quote)
       => /\ scan_i' = scan_i + 2
          /\ state' = state
          /\ start' = start
          /\ args' = args
          /\ perr' = ""]_vars

\* A quoted token is still open past an escaped quote inside it.
C20_Witness ==
  /\ state = "pstate_accumulate_quoted"
  /\ perr = ""
  /\ start + 2 <= scan_i
  /\ CharAt(command, scan_i - 2) = escape
  /\ CharAt(command, scan_i - 1) = quote

(***************************************************************************)
(* SpecParseFair: SpecParse with the loop running on: an iteration that    *)
(* can be taken is taken.                                                  *)
(***************************************************************************)
SpecParseFair == InitParse /\ [][NextParse]_vars /\ WF_vars(NextParse)

(* C21. parse_command_line terminates on every command, by returning or by *)
(* throwing: the scan index never exceeds the length of the command; an    *)
(* iteration in an accumulating state advances the index or throws, and    *)
(* one in the discarding state advances it or hands over to the raw state  *)
(* at the same index, so any two consecutive iterations advance the index  *)
(* by at least one; and the loop ends.                                     *)
C21_ScanTerminates ==
  /\ [](scan_i <= Len(command))
  /\ [][(state \in {"pstate_accumulate_quoted", "pstate_accumulate_raw"})
          => (scan_i' > scan_i \/ perr' # "")]_vars
  /\ [][(state = "pstate_discard_space")
          => \/ scan_i' > scan_i
             \/ scan_i' = scan_i /\ state' = "pstate_accumulate_raw"]_vars
  /\ <>(~Scanning)

\* The scan has ended on a raw token whose last two characters, an escaped
\* quote, were stepped over together.
C21_Witness ==
  /\ ScanEnded
  /\ state = "pstate_accumulate_raw"
  /\ scan_i = Len(command)
  /\ scan_i >= start + 3
  /\ CharAt(command, scan_i - 2) = escape
  /\ CharAt(command, scan_i - 1) = quote

====
